---- MODULE Spec2Model ----
(***************************************************************************)
(* Model of scripts/generate_icons.py: the launcher-icon generator of the  *)
(* HIIT Timer app.  The state is the module-level capability flag, the     *)
(* module-level binding of the name Image, the filesystem (directories and *)
(* files at the ten table paths), the console, and the position of main(). *)
(***************************************************************************)
EXTENDS Integers, Sequences, FiniteSets, TLC

VARIABLES
    PIL_AVAILABLE,  \* the module-level flag (lines 6-10, 76)
    ImageGlobal,    \* TRUE iff the names Image, ImageDraw, ImageFont are bound at module level
    pc,             \* position of the run
    idx,            \* index of the next table entry of the running for loop
    dirs,           \* directories that exist
    files,          \* path -> file at that path, or NoFile
    label,          \* locals of a direct create_icon call at its return: the
                    \* arguments of draw.text (line 47), or NoLabel
    stdout,         \* lines printed so far
    err,            \* the exception that ended the run, or "none"
    installs,       \* number of times os.system("pip3 install Pillow") ran
    calls,          \* number of calls of create_icon
    visited,        \* history: the driver states entered, in order
    atStart         \* history: value of PIL_AVAILABLE when the run started

vars == <<PIL_AVAILABLE, ImageGlobal, pc, idx, dirs, files, label, stdout, err,
          installs, calls, visited, atStart>>

-----------------------------------------------------------------------------
(* Bounds *)

\* Largest width/height the text bounding box may report (line 37).
MaxBBox == 192

-----------------------------------------------------------------------------
(* The literal table of main(), lines 58-69 *)

Path(d, n) == [dir |-> d, name |-> n]

icons == <<
    <<72,  Path("app/src/main/res/mipmap-hdpi",    "ic_launcher.png")>>,
    <<72,  Path("app/src/main/res/mipmap-hdpi",    "ic_launcher_round.png")>>,
    <<48,  Path("app/src/main/res/mipmap-mdpi",    "ic_launcher.png")>>,
    <<48,  Path("app/src/main/res/mipmap-mdpi",    "ic_launcher_round.png")>>,
    <<96,  Path("app/src/main/res/mipmap-xhdpi",   "ic_launcher.png")>>,
    <<96,  Path("app/src/main/res/mipmap-xhdpi",   "ic_launcher_round.png")>>,
    <<144, Path("app/src/main/res/mipmap-xxhdpi",  "ic_launcher.png")>>,
    <<144, Path("app/src/main/res/mipmap-xxhdpi",  "ic_launcher_round.png")>>,
    <<192, Path("app/src/main/res/mipmap-xxxhdpi", "ic_launcher.png")>>,
    <<192, Path("app/src/main/res/mipmap-xxxhdpi", "ic_launcher_round.png")>> >>

Entries == 1..Len(icons)
Sizes   == {icons[k][1] : k \in Entries}
Paths   == {icons[k][2] : k \in Entries}
Dirs    == {p.dir : p \in Paths}

\* os.path.dirname(path), lines 50 and 80
dirname(path) == path.dir

-----------------------------------------------------------------------------
(* Files *)

NoFile  == [kind |-> "none"]
NoLabel == [font |-> "unset"]

\* img.save(output_path, 'PNG') of an image made by Image.new('RGB', (size, size)), lines 21, 51
PngFile(img, complete) ==
    [kind |-> "PNG", width |-> img.width, height |-> img.height, text |-> "",
     complete |-> complete]

\* Mutant of TextFile: the placeholder is created empty, nothing is written to it.
MutTextFileEmpty(text, complete) ==
    [kind |-> "TEXT", width |-> 0, height |-> 0, text |-> "", complete |-> complete]

\* f.write("# Placeholder icon file\n"), lines 81-82
TextFile(text, complete) ==
    [kind |-> "TEXT", width |-> 0, height |-> 0, text |-> text, complete |-> complete]

\* Image.new('RGB', (size, size), color='#1976D2'), line 21
ImageNew(size) == [width |-> size, height |-> size, color |-> "#1976D2"]

\* os.makedirs(d, exist_ok=True): nothing to do when d exists; otherwise the
\* creation succeeds or raises OSError.
makedirs(d) ==
    IF d \in dirs
    THEN {[ok |-> TRUE, dirs |-> dirs]}
    ELSE {[ok |-> TRUE, dirs |-> dirs \cup {d}], [ok |-> FALSE, dirs |-> dirs]}

\* Writing `whole` at path: it succeeds, or it raises OSError, leaving the path
\* as it was (the open failed) or holding the truncated file `partial`.
write(path, whole, partial) ==
    { [ok |-> TRUE,  files |-> [files EXCEPT ![path] = whole]],
      [ok |-> FALSE, files |-> files],
      [ok |-> FALSE, files |-> [files EXCEPT ![path] = partial]] }

-----------------------------------------------------------------------------
(* create_icon, lines 14-52 *)

\* The font selected by lines 25-32: the TrueType font, the built-in default
\* font, or None.
Fonts == {"truetype", "default", "none"}

\* font_size = max(size // 6, 12), line 26
FontSize(size) == IF size \div 6 > 12 THEN size \div 6 ELSE 12

\* (text_width, text_height) that draw.textbbox may report, lines 37-39
BBoxes == {<<d, MaxBBox - d>> : d \in 0..MaxBBox}

\* lines 36-42: the label box
LabelBox(size, font, bbox) ==
    IF font # "none" THEN bbox ELSE <<size \div 3, size \div 4>>

\* Mutant of Center: the half is rounded up instead of down.
MutCenterCeil(size, d) == (size - d + 1) \div 2

\* lines 44-45: the offset on one axis
Center(size, d) == (size - d) \div 2

\* lines 25-47: the arguments of draw.text
Draw(size, font, bbox) ==
    LET box == LabelBox(size, font, bbox)
    IN  [font        |-> font,
         font_size   |-> IF font = "truetype" THEN FontSize(size) ELSE 0,
         size        |-> size,
         text        |-> "HT",
         text_width  |-> box[1],
         text_height |-> box[2],
         x           |-> Center(size, box[1]),
         y           |-> Center(size, box[2])]

\* The labels lines 24-47 may draw on a canvas of the given size.
Labels(size) ==
    UNION { { Draw(size, font, bbox)
              : bbox \in IF font = "none" THEN {<<0, 0>>} ELSE BBoxes }
            : font \in Fonts }

\* Mutant of Save: the image is saved without making the parent directory.
MutSaveNoMakedirs(img, output_path) ==
    { [raised |-> IF w.ok THEN "none" ELSE "OSError",
       dirs   |-> dirs,
       files  |-> w.files,
       out    |-> IF w.ok THEN << <<"Created", output_path>> >> ELSE << >>]
      : w \in write(output_path, PngFile(img, TRUE), PngFile(img, FALSE)) }

\* lines 49-52: make the parent directory, save the PNG, print
Save(img, output_path) ==
    UNION { IF m.ok
            THEN { [raised |-> IF w.ok THEN "none" ELSE "OSError",
                    dirs   |-> m.dirs,
                    files  |-> w.files,
                    out    |-> IF w.ok THEN << <<"Created", output_path>> >> ELSE << >>]
                   : w \in write(output_path, PngFile(img, TRUE), PngFile(img, FALSE)) }
            ELSE { [raised |-> "OSError", dirs |-> m.dirs, files |-> files,
                    out |-> << >>] }
          : m \in makedirs(dirname(output_path)) }

\* Mutant of SkipIcon: the skipped icon is replaced by a placeholder file.
MutSkipIconWritesPlaceholder(output_path) ==
    { [raised |-> "none",
       dirs   |-> dirs \cup {dirname(output_path)},
       files  |-> [files EXCEPT ![output_path] =
                      TextFile("# Placeholder icon file\n", TRUE)],
       out    |-> << <<"PIL not available, skipping", output_path>> >>] }

\* lines 16-18: the capability is unavailable; print and return
SkipIcon(output_path) ==
    { [raised |-> "none", dirs |-> dirs, files |-> files,
       out |-> << <<"PIL not available, skipping", output_path>> >>] }

\* The outcomes of create_icon(size, output_path) in the current state: the
\* labels it may have drawn (its locals, `drawn`) and the effects it may have
\* had on the filesystem and the console, with the exception it raised
\* (`effects`).  What the fonts report and what the filesystem does are
\* independent, so every label goes with every effect.
create_icon(size, output_path) ==
    IF ~PIL_AVAILABLE
    THEN [drawn |-> {label}, effects |-> SkipIcon(output_path)]
    ELSE IF ~ImageGlobal
    THEN \* line 21: the name Image is not bound in the module's globals
         [drawn   |-> {label},
          effects |-> { [raised |-> "NameError", dirs |-> dirs, files |-> files,
                         out |-> << >>] }]
    ELSE [drawn   |-> Labels(size),
          effects |-> Save(ImageNew(size), output_path)]

-----------------------------------------------------------------------------
(* main, lines 54-86 *)

Enter(state) == visited' = Append(visited, state)

\* The module has been loaded (lines 6-10) and main() is about to run.
Init ==
    /\ PIL_AVAILABLE \in BOOLEAN
    /\ ImageGlobal = PIL_AVAILABLE
    /\ pc = "START"
    /\ idx = 1
    /\ dirs \in SUBSET Dirs
    /\ files = [p \in Paths |-> NoFile]
    /\ label = NoLabel
    /\ stdout = << >>
    /\ err = "none"
    /\ installs = 0
    /\ calls = 0
    /\ visited = <<"START">>
    /\ atStart = PIL_AVAILABLE

\* Mutant of StartPresent: the install command is run whether or not the
\* capability is present.
MutStartPresentInstalls ==
    /\ pc = "START"
    /\ PIL_AVAILABLE
    /\ installs' = installs + 1
    /\ pc' = "GENERATE_ALL"
    /\ Enter("GENERATE_ALL")
    /\ UNCHANGED <<PIL_AVAILABLE, ImageGlobal, idx, dirs, files, label, stdout, err,
                   calls, atStart>>

\* line 71, capability present
StartPresent ==
    /\ pc = "START"
    /\ PIL_AVAILABLE
    /\ pc' = "GENERATE_ALL"
    /\ Enter("GENERATE_ALL")
    /\ UNCHANGED <<PIL_AVAILABLE, ImageGlobal, idx, dirs, files, label, stdout, err,
                   installs, calls, atStart>>

\* lines 71-72, capability absent
StartAbsent ==
    /\ pc = "START"
    /\ ~PIL_AVAILABLE
    /\ pc' = "ATTEMPT_REMEDY"
    /\ Enter("ATTEMPT_REMEDY")
    /\ stdout' = Append(stdout, <<"PIL (Pillow) is not available. Installing...", "">>)
    /\ UNCHANGED <<PIL_AVAILABLE, ImageGlobal, idx, dirs, files, label, err,
                   installs, calls, atStart>>

\* lines 73-76: the install command ran and the import inside main() succeeded.
\* The import binds Image, ImageDraw and ImageFont as locals of main(); only
\* PIL_AVAILABLE is declared global (line 56).
RemedySucceeded ==
    /\ pc = "ATTEMPT_REMEDY"
    /\ installs' = installs + 1
    /\ PIL_AVAILABLE' = TRUE
    /\ pc' = "GENERATE_ALL"
    /\ Enter("GENERATE_ALL")
    /\ UNCHANGED <<ImageGlobal, idx, dirs, files, label, stdout, err, calls, atStart>>

\* lines 73-78: the install command ran and the import raised ImportError
RemedyFailed ==
    /\ pc = "ATTEMPT_REMEDY"
    /\ installs' = installs + 1
    /\ pc' = "WRITE_PLACEHOLDERS"
    /\ Enter("WRITE_PLACEHOLDERS")
    /\ stdout' = Append(stdout,
                        <<"Could not install PIL. Creating empty placeholder files.", "">>)
    /\ UNCHANGED <<PIL_AVAILABLE, ImageGlobal, idx, dirs, files, label, err, calls,
                   atStart>>

\* Mutant of Raise: the exception is caught and dropped, and main() returns.
MutRaiseSwallowed(e) ==
    /\ err' = e
    /\ pc' = "END"
    /\ Enter("END")
    /\ idx' = idx

\* An uncaught exception leaves main() and ends the process.
Raise(e) ==
    /\ err' = e
    /\ pc' = "ABORT"
    /\ Enter("ABORT")
    /\ idx' = idx

\* lines 79-82: one iteration of the placeholder loop
PlaceholderStep ==
    /\ pc = "WRITE_PLACEHOLDERS"
    /\ idx \in Entries
    /\ LET path == icons[idx][2] IN
       \E m \in makedirs(dirname(path)) :
          /\ dirs' = m.dirs
          /\ IF m.ok
             THEN \E w \in write(path, TextFile("# Placeholder icon file\n", TRUE),
                                 TextFile("", FALSE)) :
                     /\ files' = w.files
                     /\ IF w.ok
                        THEN /\ idx' = idx + 1
                             /\ UNCHANGED <<pc, err, visited>>
                        ELSE Raise("OSError")
             ELSE /\ files' = files
                  /\ Raise("OSError")
    /\ UNCHANGED <<PIL_AVAILABLE, ImageGlobal, label, stdout, installs, calls, atStart>>

\* Mutant of PlaceholderReturn: the return of line 83 is missing and main()
\* falls through to the generation loop.
MutPlaceholderFallsThrough ==
    /\ pc = "WRITE_PLACEHOLDERS"
    /\ idx \notin Entries
    /\ pc' = "GENERATE_ALL"
    /\ idx' = 1
    /\ Enter("GENERATE_ALL")
    /\ UNCHANGED <<PIL_AVAILABLE, ImageGlobal, dirs, files, label, stdout, err,
                   installs, calls, atStart>>

\* line 83: return after the placeholder loop
PlaceholderReturn ==
    /\ pc = "WRITE_PLACEHOLDERS"
    /\ idx \notin Entries
    /\ pc' = "END"
    /\ Enter("END")
    /\ UNCHANGED <<PIL_AVAILABLE, ImageGlobal, idx, dirs, files, label, stdout, err,
                   installs, calls, atStart>>

\* Mutant of GenerateStep: an exception of create_icon is caught and the loop
\* goes on with the next entry.
MutGenerateStepContinues ==
    /\ pc = "GENERATE_ALL"
    /\ idx \in Entries
    /\ calls' = calls + 1
    /\ \E r \in create_icon(icons[idx][1], icons[idx][2]).effects :
          /\ dirs' = r.dirs
          /\ files' = r.files
          /\ stdout' = stdout \o r.out
          /\ idx' = idx + 1
          /\ UNCHANGED <<pc, err, visited>>
    /\ UNCHANGED <<PIL_AVAILABLE, ImageGlobal, label, installs, atStart>>

\* lines 85-86: one iteration of the generation loop
GenerateStep ==
    /\ pc = "GENERATE_ALL"
    /\ idx \in Entries
    /\ calls' = calls + 1
    /\ \E r \in create_icon(icons[idx][1], icons[idx][2]).effects :
          /\ dirs' = r.dirs
          /\ files' = r.files
          /\ stdout' = stdout \o r.out
          /\ IF r.raised = "none"
             THEN /\ idx' = idx + 1
                  /\ UNCHANGED <<pc, err, visited>>
             ELSE Raise(r.raised)
    /\ UNCHANGED <<PIL_AVAILABLE, ImageGlobal, label, installs, atStart>>

\* line 86: the generation loop is exhausted and main() returns
GenerateReturn ==
    /\ pc = "GENERATE_ALL"
    /\ idx \notin Entries
    /\ pc' = "END"
    /\ Enter("END")
    /\ UNCHANGED <<PIL_AVAILABLE, ImageGlobal, idx, dirs, files, label, stdout, err,
                   installs, calls, atStart>>

Next ==
    \/ StartPresent
    \/ StartAbsent
    \/ RemedySucceeded
    \/ RemedyFailed
    \/ PlaceholderStep
    \/ PlaceholderReturn
    \/ GenerateStep
    \/ GenerateReturn

Spec == Init /\ [][Next]_vars

\* The interpreter runs main() step by step until it returns or raises.
FairSpec == Spec /\ WF_vars(Next)

-----------------------------------------------------------------------------
(* create_icon called on its own (the module is imported, main() is not run) *)

IconInit ==
    /\ PIL_AVAILABLE \in BOOLEAN
    /\ ImageGlobal = PIL_AVAILABLE
    /\ pc = "CALL"
    /\ idx = 1
    /\ dirs \in SUBSET Dirs
    /\ files = [p \in Paths |-> NoFile]
    /\ label = NoLabel
    /\ stdout = << >>
    /\ err = "none"
    /\ installs = 0
    /\ calls = 0
    /\ visited = << >>
    /\ atStart = PIL_AVAILABLE

\* create_icon(size, output_path), observed at its return or raise
CallCreateIcon ==
    /\ pc = "CALL"
    /\ calls' = calls + 1
    /\ \E size \in Sizes, output_path \in Paths :
       \E l \in create_icon(size, output_path).drawn,
          r \in create_icon(size, output_path).effects :
          /\ dirs' = r.dirs
          /\ files' = r.files
          /\ label' = l
          /\ stdout' = stdout \o r.out
          /\ err' = r.raised
          /\ pc' = IF r.raised = "none" THEN "RETURNED" ELSE "RAISED"
    /\ UNCHANGED <<PIL_AVAILABLE, ImageGlobal, idx, installs, visited, atStart>>

IconNext == CallCreateIcon

SpecIcon == IconInit /\ [][IconNext]_vars

-----------------------------------------------------------------------------
(* Vocabulary of the properties *)

Terminated == pc \in {"END", "ABORT"}

\* Exit status of the process: an uncaught exception makes the interpreter exit
\* with a non-zero status, a return of main() with zero.
ExitStatus == IF pc = "ABORT" THEN 1 ELSE 0

FileOf(k) == files[icons[k][2]]

Written(k) == FileOf(k) # NoFile

ValidPng(k) ==
    /\ FileOf(k).kind = "PNG"
    /\ FileOf(k).complete
    /\ FileOf(k).width = icons[k][1]
    /\ FileOf(k).height = icons[k][1]

IsPlaceholder(k) ==
    /\ FileOf(k).kind = "TEXT"
    /\ FileOf(k).complete
    /\ FileOf(k).text = "# Placeholder icon file\n"

Entered(state) == \E n \in 1..Len(visited) : visited[n] = state

IsPrefixOf(s, t) == Len(s) <= Len(t) /\ \A n \in 1..Len(s) : s[n] = t[n]

\* The driver paths of the specification's state machine.
SpecPaths ==
    { <<"START", "GENERATE_ALL", "END">>,
      <<"START", "ATTEMPT_REMEDY", "GENERATE_ALL", "END">>,
      <<"START", "ATTEMPT_REMEDY", "WRITE_PLACEHOLDERS", "END">> }

\* The same paths, with the exits an uncaught exception takes out of the loops.
CodePaths ==
    SpecPaths \cup
    { <<"START", "GENERATE_ALL", "ABORT">>,
      <<"START", "ATTEMPT_REMEDY", "GENERATE_ALL", "ABORT">>,
      <<"START", "ATTEMPT_REMEDY", "WRITE_PLACEHOLDERS", "ABORT">> }

-----------------------------------------------------------------------------
(* C1 *)

\* C1: whenever the drawing capability is available to the driver (present at
\* startup or obtained by the install inside main()), a run that meets no
\* filesystem failure ends with a PNG of dimensions (size, size) at every one
\* of the ten table paths.
C1_AvailableMeansAllPng ==
    (Terminated /\ PIL_AVAILABLE /\ err # "OSError")
        => \A k \in Entries : ValidPng(k)

-----------------------------------------------------------------------------
(* C2 *)

\* C2: once main() has ended without a filesystem failure, a file exists at
\* the path of every table entry, on each of the three driver paths.
C2_FileAtEveryPath ==
    (Terminated /\ err # "OSError") => \A k \in Entries : Written(k)

-----------------------------------------------------------------------------
(* C3 *)

-----------------------------------------------------------------------------
(* C4 *)

\* C4 as stated: a failure while processing one entry does not affect the
\* others; every other entry is still processed and its file written.
C4_FailureDoesNotHalt ==
    Terminated => \A k \in Entries : (pc = "ABORT" /\ k = idx) \/ Written(k)

\* C4 as amended: a failure while processing an entry is not caught and ends
\* the run at that entry: the entries before it are completely written and
\* stay so, no later entry is written, and nothing runs after the failure.
C4_FailureHaltsBatch ==
    /\ \A k \in Entries : k < idx => (Written(k) /\ FileOf(k).complete)
    /\ \A k \in Entries : k > idx => ~Written(k)
    /\ \A k \in Entries : (Written(k) /\ ~FileOf(k).complete) => (pc = "ABORT" /\ k = idx)
    /\ pc = "ABORT" => (err # "none" /\ ~ENABLED Next)

C4_Witness ==
    /\ pc = "ABORT"
    /\ err = "OSError"
    /\ idx = 3
    /\ Written(2)
    /\ ~Written(4)

-----------------------------------------------------------------------------
(* C5 *)

\* C5 as stated: the program always exits zero, whatever the outcome of the
\* directory creations and file writes; it never ends with an uncaught error.
C5_AlwaysExitsZero ==
    Terminated => (ExitStatus = 0 /\ err = "none")

\* C5 as amended: the program exits zero exactly when nothing raised, and then
\* all ten files are written; an exception of a directory creation, a file
\* write or create_icon ends the process with a non-zero status.
C5_ExitsZeroIffNothingRaised ==
    /\ Terminated => ((ExitStatus = 0) <=> (err = "none"))
    /\ (Terminated /\ ExitStatus = 0) => \A k \in Entries : Written(k) /\ FileOf(k).complete
    /\ ~Terminated => err = "none"

C5_Witness ==
    /\ pc = "END"
    /\ ExitStatus = 0
    /\ ~atStart
    /\ \A k \in Entries : Written(k)

-----------------------------------------------------------------------------
(* C6 *)

\* C6: the install command runs at most once, it runs if and only if the
\* capability was unavailable at startup, and it has run before any file is
\* written or create_icon is called.
C6_InstallOnce ==
    /\ installs <= 1
    /\ atStart => installs = 0
    /\ (~atStart /\ pc \notin {"START", "ATTEMPT_REMEDY"}) => installs = 1
    /\ (~atStart /\ (calls > 0 \/ \E k \in Entries : Written(k))) => installs = 1

C6_Witness ==
    /\ installs = 1
    /\ ~atStart
    /\ \E k \in Entries : Written(k)

-----------------------------------------------------------------------------
(* C7 *)

\* C7 as stated: the driver follows only the three paths of the state machine,
\* each ending in END.
C7_OnlySpecTransitions ==
    /\ \E t \in SpecPaths : IsPrefixOf(visited, t)
    /\ Terminated => pc = "END"

\* C7 as amended: the driver follows the three paths, leaving GENERATE_ALL or
\* WRITE_PLACEHOLDERS either to END or by an uncaught exception; no state is
\* entered twice, the two loops are never both entered, and every run
\* terminates.
C7_PathsAndTermination ==
    /\ [](/\ \E t \in CodePaths : IsPrefixOf(visited, t)
          /\ visited[Len(visited)] = pc
          /\ \A m, n \in 1..Len(visited) : visited[m] = visited[n] => m = n
          /\ ~(Entered("GENERATE_ALL") /\ Entered("WRITE_PLACEHOLDERS")))
    /\ <>Terminated

C7_Witness ==
    /\ visited = <<"START", "ATTEMPT_REMEDY", "GENERATE_ALL", "ABORT">>
    /\ Terminated

-----------------------------------------------------------------------------
(* C8 *)

\* Floor of a half, stated without division: o = floor(n / 2).
IsFloorHalf(o, n) == 2 * o <= n /\ n <= 2 * o + 1

\* The properties of one axis: offset o, label dimension d, canvas size s.
AxisCentred(s, d, o) ==
    /\ IsFloorHalf(o, s - d)
    /\ d \in 0..s =>
          /\ 0 <= o
          /\ o + d <= s
          /\ o <= s - d - o
          /\ (s - d - o) - o <= 1

\* C8: create_icon places the label at floor((size - d) / 2) on each axis; for
\* d in 0..size the label lies inside the canvas with the leftover space on
\* the top-left at most that on the bottom-right and differing by at most 1;
\* without a font the label box is (size // 3, size // 4).
C8_Centering ==
    label # NoLabel =>
        /\ label.size \in Sizes
        /\ AxisCentred(label.size, label.text_width, label.x)
        /\ AxisCentred(label.size, label.text_height, label.y)
        /\ label.font = "none" =>
              /\ 3 * label.text_width <= label.size
              /\ label.size < 3 * label.text_width + 3
              /\ 4 * label.text_height <= label.size
              /\ label.size < 4 * label.text_height + 4

C8_Witness ==
    /\ pc = "RETURNED"
    /\ label # NoLabel
    /\ label.font = "default"
    /\ label.size = 48
    /\ label.text_width = 15
    /\ label.x = 16

-----------------------------------------------------------------------------
(* C9 *)

\* C9: with the capability unavailable, a call of create_icon prints one
\* diagnostic and returns, leaving directories, files and the capability flag
\* as they were.
C9_UnavailableIsNoOp ==
    [][(~PIL_AVAILABLE /\ calls' = calls + 1) =>
          /\ dirs' = dirs
          /\ files' = files
          /\ PIL_AVAILABLE' = PIL_AVAILABLE
          /\ Len(stdout') = Len(stdout) + 1
          /\ stdout'[Len(stdout')][1] = "PIL not available, skipping"
          /\ pc' = "RETURNED"
          /\ err' = "none"]_vars

C9_Witness ==
    /\ pc = "RETURNED"
    /\ ~PIL_AVAILABLE
    /\ calls = 1
    /\ Len(stdout) = 1
    /\ dirs = {}

-----------------------------------------------------------------------------
(* C10 *)

\* C10: in every state of a run, also one cut short by a filesystem failure,
\* the written entries are a prefix of the table, the written files are all
\* PNG or all placeholder text, and the parent directory of every written
\* file exists.
C10_PrefixOneKind ==
    /\ \A k \in Entries : Written(k) => \A j \in 1..(k - 1) : Written(j)
    /\ \A j, k \in Entries :
          (Written(j) /\ Written(k)) => FileOf(j).kind = FileOf(k).kind
    /\ \A k \in Entries : Written(k) => dirname(icons[k][2]) \in dirs

C10_Witness ==
    /\ pc = "ABORT"
    /\ err = "OSError"
    /\ Written(5)
    /\ ~Written(6)
    /\ FileOf(5).kind = "TEXT"

====
